---- MODULE Spec2Model ----
(***************************************************************************)
(* A model of obographs/assocmodel.py: the AssociationSet class, its      *)
(* closure index (index, termset_ancestors, inferred_types) and the       *)
(* operations that read it (query, query_intersections, enrichment_test,  *)
(* jaccard_similarity).                                                    *)
(*                                                                         *)
(* Term IDs and subject IDs are strings in the program.  They are         *)
(* modelled as the integers 1..MaxTerm and 1..MaxSubj; the integer order  *)
(* of two term IDs stands for the string order the program compares with  *)
(* x<y.  Python semantics are those of Python 3 (true division, dicts     *)
(* iterate in insertion order).                                            *)
(***************************************************************************)
EXTENDS Integers, Sequences, FiniteSets, TLC

\* ------------------------------------------------------------------ bounds
MaxSubj == 3
MaxTerm == 3
MaxEdits == 1
MaxTermsLen == 3

Subjects == 1..MaxSubj
Terms == 1..MaxTerm

\* The background argument of enrichment_test: Python's None (the default), or
\* a collection of subject IDs.
None == [none |-> TRUE, set |-> {}]

Given(S) == [none |-> FALSE, set |-> S]

VARIABLES
    ontology,                 \* self.ontology: ancestors(term), an external collaborator
    association_map,          \* self.association_map: dict subject -> terms, in insertion order
    subjects,                 \* self.subjects: list of subject IDs
    subject_to_inferred_map,  \* self.subject_to_inferred_map: dict subject -> set of terms
    strict,                   \* self.strict
    hashOrder,                \* the order in which this process iterates a set of term IDs
    edits,                    \* number of changes the caller made to the annotation map
    built,                    \* the annotation map and the index as they were after construction
    ret                       \* the last call: its name, arguments and what it returned or raised

vars == <<ontology, association_map, subjects, subject_to_inferred_map, strict,
          hashOrder, edits, built, ret>>

\* ------------------------------------------------------------------ helpers
Range(s) == {s[i] : i \in 1..Len(s)}

IsInjective(s) == \A i, j \in 1..Len(s) : s[i] = s[j] => i = j

\* All sequences over S of length at most n.
SeqsUpTo(S, n) == UNION {[1..k -> S] : k \in 0..n}

\* dict.keys() of a dict kept as a sequence of <<key, value>> pairs.
Keys(m) == [i \in 1..Len(m) |-> m[i][1]]

KeySet(m) == {m[i][1] : i \in 1..Len(m)}

\* m[k] for a key k of m.
Get(m, k) == LET i == CHOOSE i \in 1..Len(m) : m[i][1] = k IN m[i][2]

\* m[k] = v: an existing key keeps its position, a new key is appended.
Put(m, k, v) ==
    IF k \in KeySet(m)
    THEN [i \in 1..Len(m) |-> IF m[i][1] = k THEN <<k, v>> ELSE m[i]]
    ELSE Append(m, <<k, v>>)

\* del m[k]
Del(m, k) == SelectSeq(m, LAMBDA e : e[1] # k)

\* The ontologies the engine is built over: ancestors(term) for every term.
\* A chain 1 -> 2 -> ... -> MaxTerm whose ancestors(t) leaves t out, the same
\* chain with a reflexive ancestors(t), and an ontology without edges.
ChainOntology == [t \in Terms |-> {u \in Terms : u > t}]
ReflexiveChainOntology == [t \in Terms |-> {u \in Terms : u >= t}]
FlatOntology == [t \in Terms |-> {}]
Ontologies == {ChainOntology, ReflexiveChainOntology, FlatOntology}

\* ------------------------------------------------------------------ indexing
\* termset_ancestors without its last union: the terms themselves are left out.
termset_ancestors_noreflexive(ont, terms) == UNION {ont[t] : t \in terms}

\* termset_ancestors(terms): the union of ontology.ancestors(term) over the
\* terms, united with the terms themselves.
termset_ancestors(ont, terms) == (UNION {ont[t] : t \in terms}) \cup terms

\* The loop of index(): subject_to_inferred_map[subj] = termset_ancestors(terms)
\* for every item of association_map; entries of other subjects are left alone.
IndexedMap(ont, amap, old) ==
    [s \in (DOMAIN old) \cup KeySet(amap) |->
        IF s \in KeySet(amap) THEN termset_ancestors(ont, Get(amap, s)) ELSE old[s]]

\* inferred_types(subj): the stored set, or in lenient mode the empty set; in
\* strict mode the raise statement evaluates UnknownSubjectException(subj), a
\* class without a constructor taking an argument and not derived from
\* BaseException, so the call ends in a TypeError.
inferred_types(imap, subj) == IF subj \in DOMAIN imap THEN imap[subj] ELSE {}

inferred_types_error(imap, isStrict, subj) ==
    IF subj \in DOMAIN imap THEN "none"
    ELSE IF isStrict THEN "TypeError" ELSE "none"

\* The first error raised when inferred_types is called for the subjects of S.
LookupError(imap, isStrict, S) ==
    IF \E s \in S : inferred_types_error(imap, isStrict, s) # "none"
    THEN "TypeError" ELSE "none"

\* ------------------------------------------------------------------ initial states
\* The annotation maps an engine is constructed over.
InitMaps ==
    UNION {{[i \in 1..k |-> <<i, ts[i]>>] :
               ts \in [1..k -> {t \in SUBSET Terms : Cardinality(t) <= 1}]} :
           k \in 0..MaxSubj}

HashOrders == {[i \in 1..MaxTerm |-> i], [i \in 1..MaxTerm |-> MaxTerm + 1 - i]}

\* No call has returned a result the caller has yet to take.
Idle == [op |-> "idle", args |-> <<>>, out |-> <<>>, err |-> "none"]

\* __init__: the fields are set and index() is run over an empty
\* subject_to_inferred_map.
Init ==
    /\ ontology \in Ontologies
    /\ association_map \in InitMaps
    /\ subjects = Keys(association_map)
    /\ subject_to_inferred_map = IndexedMap(ontology, association_map, <<>>)
    /\ strict = FALSE
    /\ hashOrder \in HashOrders
    /\ edits = 0
    /\ built = [association_map |-> association_map,
                closure |-> subject_to_inferred_map, subjects |-> subjects]
    /\ ret = Idle

\* ------------------------------------------------------------------ the caller's changes
\* The caller adds a subject to the annotation map it passed to the engine.
AddSubject ==
    /\ ret = Idle
    /\ edits < MaxEdits
    /\ \E s \in Subjects \ KeySet(association_map), ts \in SUBSET Terms :
          association_map' = Put(association_map, s, ts)
    /\ edits' = edits + 1
    /\ UNCHANGED <<ontology, subjects, subject_to_inferred_map, strict, hashOrder, built, ret>>

\* The caller removes a subject from the annotation map.
RemoveSubject ==
    /\ ret = Idle
    /\ edits < MaxEdits
    /\ \E s \in KeySet(association_map) : association_map' = Del(association_map, s)
    /\ edits' = edits + 1
    /\ UNCHANGED <<ontology, subjects, subject_to_inferred_map, strict, hashOrder, built, ret>>

\* The caller replaces the terms of a subject of the annotation map.
Reannotate ==
    /\ ret = Idle
    /\ edits < MaxEdits
    /\ \E s \in KeySet(association_map), ts \in SUBSET Terms :
          /\ ts # Get(association_map, s)
          /\ association_map' = Put(association_map, s, ts)
    /\ edits' = edits + 1
    /\ UNCHANGED <<ontology, subjects, subject_to_inferred_map, strict, hashOrder, built, ret>>

\* The caller sets the strict flag of the engine.
SetStrict ==
    /\ ret = Idle
    /\ strict' = ~strict
    /\ UNCHANGED <<ontology, association_map, subjects, subject_to_inferred_map,
                   hashOrder, edits, built, ret>>

\* index()
Index ==
    /\ ret = Idle
    /\ subjects' = Keys(association_map)
    /\ subject_to_inferred_map' =
          IndexedMap(ontology, association_map, subject_to_inferred_map)
    /\ ret' = [op |-> "index", args |-> <<>>, out |-> <<>>, err |-> "none"]
    /\ UNCHANGED <<ontology, association_map, strict, hashOrder, edits, built>>

\* inferred_types(subj)
InferredTypes ==
    /\ ret = Idle
    /\ \E subj \in Subjects :
          ret' = [op |-> "inferred_types",
                  args |-> [subj |-> subj],
                  out |-> inferred_types(subject_to_inferred_map, subj),
                  err |-> inferred_types_error(subject_to_inferred_map, strict, subj)]
    /\ UNCHANGED <<ontology, association_map, subjects, subject_to_inferred_map,
                   strict, hashOrder, edits, built>>

\* ------------------------------------------------------------------ query
\* The test of query() without its inner if: negated terms are not looked at.
MatchesIgnoringNegated(termset, negated_termset, types) ==
    Cardinality(termset \cap types) = Cardinality(termset)

\* The test of query() for one subject.
Matches(termset, negated_termset, types) ==
    /\ Cardinality(termset \cap types) = Cardinality(termset)
    /\ Cardinality(negated_termset \cap types) = 0

\* query(terms, negated_terms): the subjects of self.subjects that match, in
\* the order of self.subjects.
query(imap, subjs, termset, negated_termset) ==
    SelectSeq(subjs,
              LAMBDA subj : Matches(termset, negated_termset, inferred_types(imap, subj)))

Query ==
    /\ ret = Idle
    /\ \E terms \in SUBSET Terms, negated_terms \in SUBSET Terms :
          LET e == LookupError(subject_to_inferred_map, strict, Range(subjects)) IN
          ret' = [op |-> "query",
                  args |-> [terms |-> terms, negated_terms |-> negated_terms],
                  out |-> IF e = "none"
                          THEN query(subject_to_inferred_map, subjects, terms, negated_terms)
                          ELSE <<>>,
                  err |-> e]
    /\ UNCHANGED <<ontology, association_map, subjects, subject_to_inferred_map,
                   strict, hashOrder, edits, built>>

\* ------------------------------------------------------------------ query_intersections
\* gmap[z]: the subjects of self.subjects whose inferred types contain z.
gmap(imap, subjs, z) == {s \in Range(subjs) : z \in inferred_types(imap, s)}

\* The second list the inner loop runs over: x_terms in the program.
InnerTerms(x_terms, y_terms) == x_terms

\* query_intersections(x_terms, y_terms): one record for every pass of the
\* nested loops with x<y.
query_intersections(imap, subjs, x_terms, y_terms) ==
    LET inner == InnerTerms(x_terms, y_terms)
        n == Len(inner)
        all == IF n = 0 THEN <<>>
               ELSE [k \in 1..(Len(x_terms) * n) |->
                        <<((k - 1) \div n) + 1, ((k - 1) % n) + 1>>]
        kept == SelectSeq(all, LAMBDA p : x_terms[p[1]] < inner[p[2]])
    IN [k \in 1..Len(kept) |->
           LET x == x_terms[kept[k][1]]
               y == inner[kept[k][2]]
               shared == gmap(imap, subjs, x) \cap gmap(imap, subjs, y)
           IN [x |-> x, y |-> y, shared |-> shared, c |-> Cardinality(shared)]]

QueryIntersections ==
    /\ ret = Idle
    /\ \E x_terms \in SeqsUpTo(Terms, MaxTermsLen), y_terms \in SeqsUpTo(Terms, 1) :
          LET e == LookupError(subject_to_inferred_map, strict, Range(subjects)) IN
          ret' = [op |-> "query_intersections",
                  args |-> [x_terms |-> x_terms, y_terms |-> y_terms],
                  out |-> IF e = "none"
                          THEN query_intersections(subject_to_inferred_map, subjects,
                                                   x_terms, y_terms)
                          ELSE <<>>,
                  err |-> e]
    /\ UNCHANGED <<ontology, association_map, subjects, subject_to_inferred_map,
                   strict, hashOrder, edits, built>>

\* ------------------------------------------------------------------ jaccard_similarity
\* jaccard_similarity with the integer division of Python 2.
jaccard_floor_division(imap, s1, s2) ==
    LET a1 == IF s1 \in DOMAIN imap THEN imap[s1] ELSE {}
        a2 == IF s2 \in DOMAIN imap THEN imap[s2] ELSE {}
        num_union == Cardinality(a1 \cup a2)
    IN IF num_union = 0 THEN <<0, 1>>
       ELSE <<Cardinality(a1 \cap a2) \div num_union, 1>>

\* A float is kept as a fraction <<numerator, denominator>>; 0.0 is <<0, 1>>.
jaccard_similarity(imap, s1, s2) ==
    LET a1 == inferred_types(imap, s1)
        a2 == inferred_types(imap, s2)
        num_union == Cardinality(a1 \cup a2)
    IN IF num_union = 0 THEN <<0, 1>>
       ELSE <<Cardinality(a1 \cap a2), num_union>>

JaccardSimilarity ==
    /\ ret = Idle
    /\ \E s1 \in Subjects, s2 \in Subjects :
          LET e == LookupError(subject_to_inferred_map, strict, {s1, s2}) IN
          ret' = [op |-> "jaccard_similarity",
                  args |-> [s1 |-> s1, s2 |-> s2],
                  out |-> IF e = "none"
                          THEN jaccard_similarity(subject_to_inferred_map, s1, s2)
                          ELSE <<>>,
                  err |-> e]
    /\ UNCHANGED <<ontology, association_map, subjects, subject_to_inferred_map,
                   strict, hashOrder, edits, built>>

\* ------------------------------------------------------------------ enrichment_test
\* Floats are kept as fractions <<numerator, denominator>> with a positive
\* denominator.
RatLess(p, q) == p[1] * q[2] < q[1] * p[2]

RatLeq(p, q) == p[1] * q[2] <= q[1] * p[2]

RatEq(p, q) == p[1] * q[2] = q[1] * p[2]

RECURSIVE Binom(_, _)
Binom(n, k) ==
    IF k < 0 \/ k > n THEN 0
    ELSE IF k = 0 THEN 1
    ELSE (Binom(n - 1, k - 1) * n) \div k

RECURSIVE SumOver(_, _)
SumOver(f, S) ==
    IF S = {} THEN 0
    ELSE LET k == CHOOSE k \in S : TRUE IN f[k] + SumOver(f, S \ {k})

\* scipy.stats.fisher_exact([[a, b], [c, d]], alternative): the p-value of
\* the hypergeometric distribution of the first cell given the margins.
fisher_exact(a, b, c, d, alternative) ==
    LET n1 == a + b
        w == [k \in 0..n1 |-> Binom(a + c, k) * Binom(b + d, n1 - k)]
        tail == CASE alternative = "greater" -> {k \in 0..n1 : k >= a}
                  [] alternative = "less" -> {k \in 0..n1 : k <= a}
                  [] alternative = "two-sided" -> {k \in 0..n1 : w[k] <= w[a]}
    IN <<SumOver(w, tail), Binom(a + b + c + d, n1)>>

\* p = p_uncorrected * num_hypotheses; if p>1.0: p=1.0
Bonferroni(p_uncorrected, num_hypotheses) ==
    LET p == <<p_uncorrected[1] * num_hypotheses, p_uncorrected[2]>>
    IN IF RatLess(<<1, 1>>, p) THEN <<1, 1>> ELSE p

\* ontology.label(cls), an external collaborator.
Label(cls) == <<"label", cls>>

\* sorted(results, key=lambda x:x['p']): a stable sort, ascending.
InsertByP(sorted, r) ==
    LET later == {i \in 1..Len(sorted) : RatLess(r.p, sorted[i].p)}
        at == IF later = {} THEN Len(sorted) + 1
              ELSE CHOOSE i \in later : \A j \in later : i <= j
    IN SubSeq(sorted, 1, at - 1) \o <<r>> \o SubSeq(sorted, at, Len(sorted))

RECURSIVE SortedByP(_)
SortedByP(results) ==
    IF results = <<>> THEN <<>>
    ELSE InsertByP(SortedByP(SubSeq(results, 1, Len(results) - 1)), results[Len(results)])

\* The background without line 194: the sample is not united into it.
BackgroundWithoutSample(subjs, sample, background) ==
    IF background = None THEN Range(subjs) ELSE background.set

\* The background with line 188 testing truthiness (if not background): an
\* empty background is replaced by every indexed subject.
BackgroundOrAll(subjs, sample, background) ==
    (IF background = None \/ background.set = {} THEN Range(subjs)
     ELSE background.set) \cup sample

\* The background the counts are taken over: the caller's background, or every
\* subject of self.subjects, with the sample united into it (lines 188-194).
Background(subjs, sample, background) ==
    (IF background = None THEN Range(subjs) ELSE background.set) \cup sample

\* The caller's background if line 191 kept the caller's object instead of
\* copying it: background.update(subjects) then adds the sample to it.
CallerBackgroundAliased(sample, background) ==
    IF background = None THEN None ELSE Given(background.set \cup sample)

\* The caller's background collection after the call: set(background) is a new
\* set, so background.update(subjects) does not reach the caller's object.
CallerBackgroundAfter(sample, background) == background

\* The filter of line 209 with bg_count[x] > 0.
RetainedAtLeastOne(bg_count, c) == bg_count[c] > 0

\* The filter of line 209.
Retained(bg_count, c) == bg_count[c] > 1

\* The body of enrichment_test for lookups that do not raise.  order is the
\* order in which the set of hypotheses is iterated.
enrichment_test(imap, subjs, order, sample, background, threshold, labels, direction) ==
    LET sample_size == Cardinality(sample)
        all_hypotheses == UNION {inferred_types(imap, s) : s \in sample}
        bg == Background(subjs, sample, background)
        bg_size == Cardinality(bg)
        bg_count == [c \in all_hypotheses |->
                        Cardinality({s \in bg : c \in inferred_types(imap, s)})]
        sample_count == [c \in all_hypotheses |->
                            Cardinality({s \in sample : c \in inferred_types(imap, s)})]
        hypotheses == SelectSeq(order,
                          LAMBDA x : x \in all_hypotheses /\ Retained(bg_count, x))
        num_hypotheses == Len(hypotheses)
        cells == [cls \in all_hypotheses |->
                     LET a == sample_count[cls]
                         b == sample_size - a
                         c == bg_count[cls] - a
                         d == (bg_size - bg_count[cls]) - b
                     IN [a |-> a, b |-> b, c |-> c, d |-> d]]
        negative == \E i \in 1..num_hypotheses :
                        LET t == cells[hypotheses[i]]
                        IN t.a < 0 \/ t.b < 0 \/ t.c < 0 \/ t.d < 0
        tested == [i \in 1..num_hypotheses |->
                      LET cls == hypotheses[i]
                          t == cells[cls]
                          p_uncorrected == fisher_exact(t.a, t.b, t.c, t.d, direction)
                          p == Bonferroni(p_uncorrected, num_hypotheses)
                      IN IF labels
                         THEN [c |-> cls, p |-> p, p_uncorrected |-> p_uncorrected,
                               n |-> Label(cls)]
                         ELSE [c |-> cls, p |-> p, p_uncorrected |-> p_uncorrected]]
        results == SelectSeq(tested, LAMBDA res : RatLess(res.p, threshold))
    IN [err |-> IF negative THEN "ValueError" ELSE "none",
        out |-> IF negative THEN <<>> ELSE SortedByP(results),
        locals |-> [sample_size |-> sample_size, bg_size |-> bg_size,
                    all_hypotheses |-> all_hypotheses,
                    bg_count |-> bg_count, sample_count |-> sample_count,
                    num_hypotheses |-> num_hypotheses, cells |-> cells]]

\* The thresholds a caller passes: the default 0.05, 1.0 and 2.0.
Thresholds == {<<1, 20>>, <<1, 1>>, <<2, 1>>}

Directions == {"greater", "less", "two-sided"}

EnrichmentTest ==
    /\ ret = Idle
    /\ \E sample \in SUBSET Subjects, background \in {None} \cup {Given(S) : S \in SUBSET Subjects},
          threshold \in Thresholds, labels \in BOOLEAN, direction \in Directions :
          LET e == LookupError(subject_to_inferred_map, strict,
                               Background(subjects, sample, background))
              r == enrichment_test(subject_to_inferred_map, subjects, hashOrder,
                                   sample, background, threshold, labels, direction)
          IN ret' = [op |-> "enrichment_test",
                     args |-> [subjects |-> sample, background |-> background,
                               threshold |-> threshold, labels |-> labels,
                               direction |-> direction],
                     after |-> [subjects |-> sample,
                                background |-> CallerBackgroundAfter(sample, background)],
                     out |-> IF e = "none" THEN r.out ELSE <<>>,
                     locals |-> r.locals,
                     err |-> IF e = "none" THEN r.err ELSE e]
    /\ UNCHANGED <<ontology, association_map, subjects, subject_to_inferred_map,
                   strict, hashOrder, edits, built>>

\* The caller takes the result (or the exception) of the call that returned.
Return ==
    /\ ret # Idle
    /\ ret' = Idle
    /\ UNCHANGED <<ontology, association_map, subjects, subject_to_inferred_map,
                   strict, hashOrder, edits, built>>

\* ------------------------------------------------------------------ specifications
\* Spec is the whole engine.  The other specifications keep the same initial
\* states and restrict the calls to one component, so that the arguments of
\* its calls can be enumerated in full.
\*
\* The index and its lookup, with the caller changing the annotation map and
\* re-indexing.
NextIndex ==
    \/ AddSubject
    \/ RemoveSubject
    \/ Reannotate
    \/ SetStrict
    \/ Index
    \/ InferredTypes
    \/ Return

SpecIndex == Init /\ [][NextIndex]_vars

\* Queries and similarity scores over an index that the caller may have
\* re-built after a change of the annotation map.
NextQuery ==
    \/ AddSubject
    \/ RemoveSubject
    \/ Reannotate
    \/ SetStrict
    \/ Index
    \/ Query
    \/ JaccardSimilarity
    \/ Return

SpecQuery == Init /\ [][NextQuery]_vars

\* Enrichment tests over the index as it was built.
NextEnrich ==
    \/ SetStrict
    \/ EnrichmentTest
    \/ Return

SpecEnrich == Init /\ [][NextEnrich]_vars

\* The calls that read the index, with no change to the annotation map and no
\* re-index in between.
NextReaders ==
    \/ SetStrict
    \/ InferredTypes
    \/ Query
    \/ QueryIntersections
    \/ EnrichmentTest
    \/ JaccardSimilarity
    \/ Return

SpecReaders == Init /\ [][NextReaders]_vars

\* Every operation of the engine and of its caller.
Next ==
    \/ AddSubject
    \/ RemoveSubject
    \/ Reannotate
    \/ SetStrict
    \/ Index
    \/ InferredTypes
    \/ Query
    \/ QueryIntersections
    \/ EnrichmentTest
    \/ JaccardSimilarity
    \/ Return

Spec == Init /\ [][Next]_vars

\* ------------------------------------------------------------------ properties
\* The stored closure of a subject (the entry of the ClosureMap).
Closure(s) == subject_to_inferred_map[s]

\* The closure a lookup yields in lenient mode: empty for an absent subject.
LenientClosure(s) == IF s \in DOMAIN subject_to_inferred_map THEN Closure(s) ELSE {}

Direct(s) == Get(association_map, s)

\* index() has just run, or the annotation map is as it was at construction.
JustIndexed == ret.op = "index" \/ edits = 0

\* C1: after indexing (construction or index()), every subject s of the
\* annotation map has a stored closure equal to direct(s) united with
\* ancestors(t) for every t of direct(s), so the closure contains direct(s),
\* also over an ontology whose ancestors(t) leaves t out.
C1_ClosureIsDirectAndAncestors ==
    JustIndexed =>
        \A s \in KeySet(association_map) :
            /\ s \in DOMAIN subject_to_inferred_map
            /\ Closure(s) = Direct(s) \cup UNION {ontology[t] : t \in Direct(s)}
            /\ Direct(s) \subseteq Closure(s)

\* C1 witness: a re-index after a change, over the chain ontology whose
\* ancestors(t) leaves t out, with a subject whose closure adds ancestors.
C1_Witness ==
    /\ ret.op = "index"
    /\ edits > 0
    /\ ontology = ChainOntology
    /\ \E s \in KeySet(association_map) :
          /\ Direct(s) # {}
          /\ Closure(s) # Direct(s)
          /\ \E t \in Direct(s) : t \notin ontology[t]

\* The position of s in a sequence without repetitions.
Pos(seq, s) == CHOOSE i \in 1..Len(seq) : seq[i] = s

\* C2: query returns exactly the indexed subjects whose closure contains every
\* include term and no exclude term, each once and in SubjectIndex order; with
\* both sets empty that is every indexed subject in index order, and with a
\* term both included and excluded it is the empty sequence.
C2_QueryIsFilter ==
    ret.op = "query" =>
        LET include == ret.args.terms
            exclude == ret.args.negated_terms
            out == ret.out
        IN /\ ret.err = "none"
           /\ IsInjective(out)
           /\ Range(out) = {s \in Range(subjects) :
                               /\ s \in DOMAIN subject_to_inferred_map
                               /\ include \subseteq Closure(s)
                               /\ exclude \cap Closure(s) = {}}
           /\ \A i, j \in 1..Len(out) :
                 i < j => Pos(subjects, out[i]) < Pos(subjects, out[j])
           /\ (include = {} /\ exclude = {}) => out = subjects
           /\ (\E t \in Terms : include = {t} /\ exclude = {t}) => out = <<>>

\* C2 witness: a query with include and exclude terms that keeps some of the
\* indexed subjects and drops others.
C2_Witness ==
    /\ ret.op = "query"
    /\ ret.args.terms # {}
    /\ ret.args.negated_terms # {}
    /\ Len(ret.out) > 0
    /\ Len(ret.out) < Len(subjects)

\* C3: closureOf(subj) returns the stored closure of a subject of the
\* ClosureMap; for an absent subject it fails with the UnknownSubject error in
\* strict mode and returns the empty set in lenient mode.
C3_ClosureOfLookup ==
    ret.op = "inferred_types" =>
        LET subj == ret.args.subj IN
        /\ subj \in DOMAIN subject_to_inferred_map =>
              ret.err = "none" /\ ret.out = Closure(subj)
        /\ (subj \notin DOMAIN subject_to_inferred_map /\ strict) =>
              ret.err = "UnknownSubject"
        /\ (subj \notin DOMAIN subject_to_inferred_map /\ ~strict) =>
              ret.err = "none" /\ ret.out = {}
\* The background, the hypotheses and the counts of the enrichment test of ret,
\* from the arguments of the call and the ClosureMap.
TestBackground == (IF ret.args.background = None THEN Range(subjects)
          ELSE ret.args.background.set) \cup ret.args.subjects

TestHypotheses == UNION {LenientClosure(s) : s \in ret.args.subjects}

TestBackgroundCount(c) == Cardinality({s \in TestBackground : c \in LenientClosure(s)})

NumRetained == Cardinality({c \in TestHypotheses : TestBackgroundCount(c) > 1})

\* C4: the records enrichmentTest returns are sorted ascending by correctedP;
\* every record has correctedP < threshold and uncorrectedP <= correctedP <= 1,
\* with correctedP = min(1.0, uncorrectedP x numHypotheses), numHypotheses
\* being the number of hypothesis terms whose bgCount is greater than 1; no
\* record is for a term with bgCount <= 1.
C4_EnrichmentRecords ==
    (ret.op = "enrichment_test" /\ ret.err = "none") =>
        LET out == ret.out IN
        /\ \A i, j \in 1..Len(out) : i < j => RatLeq(out[i].p, out[j].p)
        /\ \A i \in 1..Len(out) :
              LET r == out[i]
                  scaled == <<r.p_uncorrected[1] * NumRetained, r.p_uncorrected[2]>>
              IN /\ RatLess(r.p, ret.args.threshold)
                 /\ RatLeq(r.p_uncorrected, r.p)
                 /\ RatLeq(r.p, <<1, 1>>)
                 /\ RatLeq(<<0, 1>>, r.p_uncorrected)
                 /\ IF RatLess(<<1, 1>>, scaled) THEN RatEq(r.p, <<1, 1>>)
                    ELSE RatEq(r.p, scaled)
                 /\ r.c \in TestHypotheses
                 /\ TestBackgroundCount(r.c) > 1

\* C4 witness: a result of at least two records with different correctedP, one
\* of them capped at 1.0 and one of them scaled by numHypotheses > 1, while a
\* hypothesis term with bgCount 1 was discarded.
C4_Witness ==
    /\ ret.op = "enrichment_test"
    /\ ret.err = "none"
    /\ Len(ret.out) >= 2
    /\ RatLess(ret.out[1].p, ret.out[Len(ret.out)].p)
    /\ RatEq(ret.out[Len(ret.out)].p, <<1, 1>>)
    /\ RatLess(ret.out[1].p_uncorrected, ret.out[1].p)
    /\ \E c \in TestHypotheses : TestBackgroundCount(c) = 1

\* The background is empty after the sample has been united into it.
EmptyBackground == ret.op = "enrichment_test" /\ TestBackground = {}

\* C5 as stated: enrichmentTest with an empty background (bgSize = 0 after the
\* sample has been united into it) fails with an InvalidArgument error instead
\* of returning a result list.
C5_EmptyBackgroundFails == EmptyBackground => ret.err = "InvalidArgument"

\* C5 as amended: enrichmentTest with an empty background (bgSize = 0 after
\* the sample has been united into it) does not fail: it returns the empty
\* result list.
C5_EmptyBackgroundReturnsEmpty ==
    EmptyBackground => (ret.err = "none" /\ ret.out = <<>> /\ ret.locals.bg_size = 0)

\* C5 witness: calls with an empty sample and an empty background, one with an
\* empty explicit background over a non-empty index.
C5_Witness ==
    /\ EmptyBackground
    /\ ret.args.background = Given({})
    /\ subjects # <<>>

\* C6: in lenient mode jaccard(s1, s2) is |closure(s1) n closure(s2)| divided
\* by |closure(s1) u closure(s2)| and lies in [0,1], for indexed and other
\* subjects; it is 0.0 when both closures are empty, and jaccard(s, s) is 1.0
\* when closure(s) is not empty.
C6_Jaccard ==
    (ret.op = "jaccard_similarity" /\ ~strict) =>
        LET c1 == LenientClosure(ret.args.s1)
            c2 == LenientClosure(ret.args.s2)
            j == ret.out
        IN /\ ret.err = "none"
           /\ j[2] > 0
           /\ RatLeq(<<0, 1>>, j) /\ RatLeq(j, <<1, 1>>)
           /\ c1 \cup c2 # {} => RatEq(j, <<Cardinality(c1 \cap c2), Cardinality(c1 \cup c2)>>)
           /\ c1 \cup c2 = {} => RatEq(j, <<0, 1>>)
           /\ (ret.args.s1 = ret.args.s2 /\ c1 # {}) => RatEq(j, <<1, 1>>)

\* C6 witness: two different subjects whose closures overlap without being
\* equal, so that the similarity is strictly between 0 and 1.
C6_Witness ==
    /\ ret.op = "jaccard_similarity"
    /\ ~strict
    /\ ret.args.s1 # ret.args.s2
    /\ RatLess(<<0, 1>>, ret.out)
    /\ RatLess(ret.out, <<1, 1>>)

\* C7: for every xTerms and yTerms sequence, also one that repeats a term,
\* intersections returns no record with x = y and no two records with the same
\* (x, y) pair; every record has x < y, shared equal to the set of indexed
\* subjects whose closure contains both x and y, and count = |shared|.
C7_IntersectionRecords ==
    ret.op = "query_intersections" =>
        LET out == ret.out IN
        /\ ret.err = "none"
        /\ \A i \in 1..Len(out) :
              /\ out[i].x # out[i].y
              /\ out[i].x < out[i].y
              /\ out[i].shared = {s \in Range(subjects) :
                                     {out[i].x, out[i].y} \subseteq LenientClosure(s)}
              /\ out[i].c = Cardinality(out[i].shared)
        /\ \A i, j \in 1..Len(out) :
              (out[i].x = out[j].x /\ out[i].y = out[j].y) => i = j

\* The result of the call of ret, computed over the index as it was built.
ResultOnBuilt ==
    LET e(S) == LookupError(built.closure, strict, S) IN
    CASE ret.op = "inferred_types" ->
            [out |-> inferred_types(built.closure, ret.args.subj),
             err |-> e({ret.args.subj})]
      [] ret.op = "query" ->
            [out |-> query(built.closure, built.subjects,
                           ret.args.terms, ret.args.negated_terms),
             err |-> "none"]
      [] ret.op = "query_intersections" ->
            [out |-> query_intersections(built.closure, built.subjects,
                                         ret.args.x_terms, ret.args.y_terms),
             err |-> "none"]
      [] ret.op = "jaccard_similarity" ->
            [out |-> IF e({ret.args.s1, ret.args.s2}) = "none"
                     THEN jaccard_similarity(built.closure, ret.args.s1, ret.args.s2)
                     ELSE <<>>,
             err |-> e({ret.args.s1, ret.args.s2})]
      [] ret.op = "enrichment_test" ->
            LET bg == Background(built.subjects, ret.args.subjects, ret.args.background)
            IN [out |-> IF e(bg) = "none"
                        THEN enrichment_test(built.closure, built.subjects, hashOrder,
                                 ret.args.subjects, ret.args.background,
                                 ret.args.threshold, ret.args.labels,
                                 ret.args.direction).out
                        ELSE <<>>,
                err |-> e(bg)]
      [] OTHER -> [out |-> ret.out, err |-> ret.err]

C9_ContingencyCells ==
    (ret.op = "enrichment_test" /\ ~strict) =>
        LET l == ret.locals IN
        /\ ret.err = "none"
        /\ l.all_hypotheses = TestHypotheses
        /\ l.sample_size = Cardinality(ret.args.subjects)
        /\ \A h \in l.all_hypotheses :
              LET t == l.cells[h] IN
              /\ l.sample_count[h] <= l.bg_count[h]
              /\ t.a = l.sample_count[h]
              /\ t.b = l.sample_size - t.a
              /\ t.c = l.bg_count[h] - t.a
              /\ t.d = (l.bg_size - l.bg_count[h]) - t.b
              /\ t.a >= 0 /\ t.b >= 0 /\ t.c >= 0 /\ t.d >= 0
              /\ t.a + t.b + t.c + t.d = l.bg_size

\* C9 witness: a lenient enrichment test with a retained hypothesis whose
\* sample holds a subject with a non-empty closure that the caller's
\* background leaves out, and a subject that is not indexed.
C9_Witness ==
    /\ ret.op = "enrichment_test"
    /\ ~strict
    /\ ret.args.background # None
    /\ \E s \in ret.args.subjects \ ret.args.background.set : LenientClosure(s) # {}
    /\ \E s \in ret.args.subjects : s \notin DOMAIN subject_to_inferred_map
    /\ ret.locals.num_hypotheses > 0

\* C10: after changes to the annotation map, each followed by a completed
\* index(), the subjects with an entry in the ClosureMap are the subjects of the
\* SubjectIndex, each entry is the closure of the subject's current direct
\* terms, and closureOf of a subject no longer in the annotation map yields
\* the empty set in lenient mode.
C10_ReindexTracksMap ==
    ret.op = "index" =>
        /\ DOMAIN subject_to_inferred_map = Range(subjects)
        /\ Range(subjects) = KeySet(association_map)
        /\ \A s \in KeySet(association_map) :
              Closure(s) = termset_ancestors(ontology, Direct(s))
        /\ \A s \in Subjects \ KeySet(association_map) :
              ~strict => inferred_types(subject_to_inferred_map, s) = {}
====
